---- MODULE Spec2Model ----
(***************************************************************************)
(* AssessAI: the interview conversation controller, its state manager,     *)
(* validators, tech-stack parser, question generator and persistence       *)
(* gateway, modelled as a state machine.                                   *)
(*                                                                         *)
(* Text is a finite sequence of symbols.  A symbol is a one-character      *)
(* string ("a", " ", ",") or the name of a fixed text fragment of the      *)
(* program ("<CONSENT_GIVEN>", "<D1>"), which stands for the non-blank     *)
(* literal it names.  The Python "" is the empty sequence <<>>.            *)
(***************************************************************************)
EXTENDS Integers, Sequences, FiniteSets, TLC

----------------------------------------------------------------------------
(* Characters and the str methods the program uses.                        *)

UpperChars == <<"A","B","C","D","E","F","G","H","I","J","K","L","M",
                "N","O","P","Q","R","S","T","U","V","W","X","Y","Z">>

LowerChars == <<"a","b","c","d","e","f","g","h","i","j","k","l","m",
                "n","o","p","q","r","s","t","u","v","w","x","y","z">>

DigitChars == {"0","1","2","3","4","5","6","7","8","9"}

Whitespace == {" ", "\t", "\n", "\r"}

Range(s) == {s[i] : i \in 1..Len(s)}

\* regex class \w
WordChars == Range(UpperChars) \cup Range(LowerChars) \cup DigitChars \cup {"_"}

\* regex class [\w\.-]
EmailChars == WordChars \cup {".", "-"}

\* regex class [\d\s\-\(\)\+]
PhoneChars == DigitChars \cup Whitespace \cup {"-", "(", ")", "+"}

LowerChar(c) ==
    IF \E i \in 1..Len(UpperChars) : UpperChars[i] = c
    THEN LowerChars[CHOOSE i \in 1..Len(UpperChars) : UpperChars[i] = c]
    ELSE c

\* str.lower()
Lower(s) == [i \in 1..Len(s) |-> LowerChar(s[i])]

\* str.strip(): drop the leading and the trailing whitespace
Strip(s) ==
    LET keep == {i \in 1..Len(s) : s[i] \notin Whitespace}
    IN  IF keep = {} THEN <<>>
        ELSE LET lo == CHOOSE i \in keep : \A j \in keep : i <= j
                 hi == CHOOSE i \in keep : \A j \in keep : j <= i
             IN  SubSeq(s, lo, hi)

\* str.startswith(p)
StartsWith(s, p) == Len(s) >= Len(p) /\ SubSeq(s, 1, Len(p)) = p

RECURSIVE Split(_, _)
\* str.split(c) for a one-character separator c
Split(s, c) ==
    LET hits == {i \in 1..Len(s) : s[i] = c}
    IN  IF hits = {} THEN <<s>>
        ELSE LET i == CHOOSE k \in hits : \A j \in hits : k <= j
             IN  <<SubSeq(s, 1, i - 1)>> \o Split(SubSeq(s, i + 1, Len(s)), c)

\* value.strip().split()[0]: the first whitespace-delimited token of a
\* text that holds one
FirstToken(s) ==
    LET t    == Strip(s)
        gaps == {i \in 1..Len(t) : t[i] \in Whitespace}
    IN  IF gaps = {} THEN t
        ELSE SubSeq(t, 1, (CHOOSE k \in gaps : \A j \in gaps : k <= j) - 1)

\* [x for x in s if keep(x)] for a set of kept values
RECURSIVE SelectNonEmpty(_)
SelectNonEmpty(ss) ==
    IF ss = <<>> THEN <<>>
    ELSE (IF Head(ss) # <<>> THEN <<Head(ss)>> ELSE <<>>) \o SelectNonEmpty(Tail(ss))

\* s[:n]
Take(s, n) == SubSeq(s, 1, IF Len(s) < n THEN Len(s) ELSE n)

----------------------------------------------------------------------------
(* utils/validators.py                                                     *)

\* re.match(r'^[\w\.-]+@[\w\.-]+\.\w+$', t) for a text t that "$" ends
EmailShape(t) ==
    \E a \in 1..Len(t) : \E d \in 1..Len(t) :
        /\ t[a] = "@" /\ t[d] = "." /\ a + 1 < d /\ 1 < a /\ d < Len(t)
        /\ \A i \in 1..(a - 1) : t[i] \in EmailChars
        /\ \A i \in (a + 1)..(d - 1) : t[i] \in EmailChars
        /\ \A i \in (d + 1)..Len(t) : t[i] \in WordChars

\* "$" matches at the end of the text and before a final newline
DollarCuts(s) ==
    {s} \cup (IF Len(s) > 0 /\ s[Len(s)] = "\n" THEN {SubSeq(s, 1, Len(s) - 1)} ELSE {})

validate_email(email) == \E t \in DollarCuts(email) : EmailShape(t)

PhoneMinLen == 7
PhoneMaxLen == 20

validate_phone(phone) ==
    \E t \in DollarCuts(phone) :
        /\ PhoneMinLen <= Len(t) /\ Len(t) <= PhoneMaxLen
        /\ \A i \in 1..Len(t) : t[i] \in PhoneChars

EMAIL_ERROR == <<"<EMAIL_ERROR>">>
PHONE_ERROR == <<"<PHONE_ERROR>">>

\* the result dictionary: valid, and the error text when invalid
validate_input(current_step, user_input) ==
    IF current_step = "email" /\ ~validate_email(user_input)
    THEN [valid |-> FALSE, error |-> EMAIL_ERROR]
    ELSE IF current_step = "phone" /\ ~validate_phone(user_input)
    THEN [valid |-> FALSE, error |-> PHONE_ERROR]
    ELSE [valid |-> TRUE, error |-> <<>>]

----------------------------------------------------------------------------
(* utils/tech_parser.py                                                    *)

MaxTechs == 4

GENERAL == <<"g","e","n","e","r","a","l">>

\* a parser that keeps every technology named
ParseEveryTechnology(tech_stack_input) ==
    LET raw          == Split(tech_stack_input, ",")
        technologies == [i \in 1..Len(raw) |-> Lower(Strip(raw[i]))]
        kept         == SelectNonEmpty(technologies)
    IN  IF kept = <<>> THEN <<GENERAL>> ELSE kept

parse_tech_stack(tech_stack_input) ==
    LET raw          == Split(tech_stack_input, ",")
        technologies == [i \in 1..Len(raw) |-> Lower(Strip(raw[i]))]
        kept         == Take(SelectNonEmpty(technologies), MaxTechs)
    IN  IF kept = <<>> THEN <<GENERAL>> ELSE kept

\* re.sub(r'^\d+\.?\s*', '', line): leading digits, one optional period,
\* then whitespace
StripNumber(line) ==
    LET nond  == {i \in 1..Len(line) : line[i] \notin DigitChars}
        d     == IF nond = {} THEN Len(line) + 1
                 ELSE CHOOSE k \in nond : \A j \in nond : k <= j
        p     == IF d <= Len(line) /\ line[d] = "." THEN d + 1 ELSE d
        nonws == {i \in p..Len(line) : line[i] \notin Whitespace}
        q     == IF nonws = {} THEN Len(line) + 1
                 ELSE CHOOSE k \in nonws : \A j \in nonws : k <= j
    IN  IF d = 1 THEN line ELSE SubSeq(line, q, Len(line))

\* a test that passes every line beginning with a digit
AnyNumberLine(line) == line # <<>> /\ line[1] \in DigitChars

NumberedLine(line) ==
    /\ line # <<>>
    /\ \/ StartsWith(line, <<"1", ".">>)
       \/ StartsWith(line, <<"2", ".">>)
       \/ StartsWith(line, <<"3", ".">>)

RECURSIVE ParseLines(_)
ParseLines(lines) ==
    IF lines = <<>> THEN <<>>
    ELSE LET line == Strip(Head(lines))
         IN  (IF NumberedLine(line) THEN <<StripNumber(line)>> ELSE <<>>)
             \o ParseLines(Tail(lines))

parse_questions_from_response(response) ==
    IF response = <<>> THEN <<>> ELSE ParseLines(Split(response, "\n"))

get_default_questions(tech) ==
    << <<"<D1>">> \o tech \o <<"?">>,
       <<"<D2>">> \o tech \o <<"<D2b>">>,
       <<"<D3>">> \o tech \o <<"<D3b>">> >>

----------------------------------------------------------------------------
(* Python values                                                           *)

None == <<"<None>">>

EmptyDict == <<>>

\* d[k] = v
Put(d, k, v) == [x \in (DOMAIN d) \cup {k} |-> IF x = k THEN v ELSE d[x]]

\* d.get(k, default)
Get(d, k, default) == IF k \in DOMAIN d THEN d[k] ELSE default

\* truthiness of an Optional[str]
Truthy(x) == x # None /\ x # <<>>

RECURSIVE IndexFrom(_, _, _)
IndexFrom(s, x, i) ==
    IF i > Len(s) THEN 0 ELSE IF s[i] = x THEN i ELSE IndexFrom(s, x, i + 1)

\* list.index(x) + 1: the first position of x in s (x is in s at every call)
Index(s, x) == IndexFrom(s, x, 1)

----------------------------------------------------------------------------
(* templates/prompts.py, templates/consent_prompts.py: the fixed texts     *)

INTERVIEW_FLOW_KEYS ==
    <<"name", "email", "phone", "experience", "position", "location", "tech_stack">>

InfoSteps == Range(INTERVIEW_FLOW_KEYS)

\* INTERVIEW_FLOW[step]: the fixed prompt of a field
INTERVIEW_FLOW(step) == <<"<ASK>", step>>

\* BASIC_ACKNOWLEDGMENTS.get(prev_step, "Thank you."), "{name}" filled in
BASIC_ACKNOWLEDGMENT(prev_step, first_name) ==
    IF prev_step = "name" THEN <<"<Thanks >">> \o first_name \o <<".">>
    ELSE <<"<ACK>", prev_step>>

ACKNOWLEDGMENT_RESPONSES ==
    << <<"<ACK1>">>, <<"<ACK2>">>, <<"<ACK3>">>, <<"<ACK4>">>, <<"<ACK5>">> >>

CONCLUSION_MESSAGE == <<"<CONCLUSION_MESSAGE>">>
CONSENT_REQUEST == <<"<CONSENT_REQUEST>">>
CONSENT_GIVEN == <<"<CONSENT_GIVEN>">>
CONSENT_DECLINED == <<"<CONSENT_DECLINED>">>
END_OF_INTERVIEW_DATA_NOTICE == <<"<END_OF_INTERVIEW_DATA_NOTICE>">>

\* the literals of chatbot_controller.py
EXIT_COMMAND == <<"e", "x", "i", "t">>
EXIT_MESSAGE == <<"<Thank you for participating. The session has been ended.>">>
NO_INPUT_MESSAGE == <<"<I didn't receive your response.>">>
YES_NO_MESSAGE == <<"<Please respond with 'yes' or 'no'.>">>
NOT_SURE_MESSAGE == <<"<I'm not sure what to ask next.>">>
GDPR_GREETING == <<"<Hi there!>">> \o CONSENT_REQUEST

AFFIRMATIVE ==
    { <<"y", "e", "s">>, <<"y">>, <<"s", "u", "r", "e">>, <<"o", "k", "a", "y">>, <<"o", "k">>, <<"a", "g", "r", "e", "e">>, <<"c", "o", "n", "s", "e", "n", "t">>, <<"i", " ", "c", "o", "n", "s", "e", "n", "t">> }

NEGATIVE ==
    { <<"n", "o">>, <<"n">>, <<"n", "o", "p", "e">>, <<"d", "i", "s", "a", "g", "r", "e", "e">>, <<"d", "o", " ", "n", "o", "t", " ", "c", "o", "n", "s", "e", "n", "t">>, <<"i", " ", "d", "o", " ", "n", "o", "t", " ", "c", "o", "n", "s", "e", "n", "t">> }

\* the fallback questions of _get_technical_question_response
LocalDefaultQuestions(current_tech) == get_default_questions(current_tech)

----------------------------------------------------------------------------
(* models/llm_client.py                                                    *)

\* generate_response for a phrasing prompt: response.text.strip(), or ""
\* when the call fails
generate_response(up, prompt) == IF up THEN <<"<LLM>", prompt>> ELSE <<>>

\* add_to_history
add_to_history(history, user_message, bot_message) ==
    history \o << [role |-> "user", parts |-> <<user_message>>],
                  [role |-> "model", parts |-> <<bot_message>>] >>

----------------------------------------------------------------------------
(* interview/question_generator.py                                         *)

QuestionsPerTech == 3

\* the parsed questions left as they are
NoPadding(questions, default_questions) == questions

RECURSIVE PadQuestions(_, _)
\* while len(questions) < 3: questions.append(default_questions[len(questions)])
PadQuestions(questions, default_questions) ==
    IF Len(questions) < QuestionsPerTech
    THEN PadQuestions(Append(questions, default_questions[Len(questions) + 1]),
                      default_questions)
    ELSE questions

RECURSIVE GenerateFrom(_, _, _, _)
\* the loop over tech_stack from position i; texts[i] is what the i-th
\* generation call returns
GenerateFrom(tech_stack, texts, i, tech_questions) ==
    IF i > Len(tech_stack) THEN tech_questions
    ELSE LET tech      == tech_stack[i]
             questions == parse_questions_from_response(texts[i])
             padded    == PadQuestions(questions, get_default_questions(tech))
         IN  GenerateFrom(tech_stack, texts, i + 1,
                          Put(tech_questions, tech, Take(padded, QuestionsPerTech)))

\* a generator that uses the first generated text for every technology
GenerateFromFirstText(tech_stack, texts) ==
    GenerateFrom(tech_stack, [i \in DOMAIN texts |-> texts[1]], 1, EmptyDict)

generate_tech_questions(tech_stack, texts) ==
    GenerateFrom(tech_stack, texts, 1, EmptyDict)

----------------------------------------------------------------------------
(* interview/state_manager.py: operations on the state dictionary s        *)

\* InterviewStateManager.reset: the fresh state dictionary
FreshState ==
    [ current_step                     |-> "name",
      candidate_info                   |-> EmptyDict,
      first_name                       |-> <<>>,
      tech_stack                       |-> <<>>,
      current_tech                     |-> None,
      questions_asked_for_current_tech |-> 0,
      asked_questions                  |-> EmptyDict,
      current_question                 |-> <<>>,
      tech_questions                   |-> EmptyDict,
      interview_complete               |-> FALSE ]

update_current_step(s, step) == [s EXCEPT !.current_step = step]

store_candidate_info(s, step, value) ==
    [s EXCEPT !.candidate_info = Put(@, step, value),
              !.first_name = IF step = "name" THEN FirstToken(value) ELSE @]

set_tech_stack(s, technologies) == [s EXCEPT !.tech_stack = technologies]

\* a change of technology that keeps the count
SetTechKeepCount(s, tech) == [s EXCEPT !.current_tech = tech]

set_current_tech(s, tech) ==
    [s EXCEPT !.current_tech = tech, !.questions_asked_for_current_tech = 0]

increment_questions_asked(s) ==
    [s EXCEPT !.questions_asked_for_current_tech = @ + 1]

store_question(s, question) == [s EXCEPT !.current_question = question]

store_tech_questions(s, tech_questions) == [s EXCEPT !.tech_questions = tech_questions]

get_tech_questions(s, tech) ==
    IF Truthy(tech) THEN Get(s.tech_questions, tech, <<>>) ELSE s.tech_questions

store_answer(s, tech, question, answer) ==
    LET sofar == Get(s.asked_questions, tech, <<>>)
    IN  [s EXCEPT !.asked_questions =
            Put(@, tech, Append(sofar, [question |-> question, answer |-> answer]))]

get_asked_questions(s, tech) ==
    IF Truthy(tech) THEN Get(s.asked_questions, tech, <<>>) ELSE s.asked_questions

mark_interview_complete(s) == [s EXCEPT !.interview_complete = TRUE]

\* The class defines no mark_interview_finished and no is_interview_finished:
\* the attribute lookup raises, whatever the state.
ATTRIBUTE_ERROR == "AttributeError"
DATABASE_ERROR == "DatabaseError"
VALUE_ERROR == "ValueError"

StateManagerMethods ==
    { "reset", "get_current_step", "update_current_step", "store_candidate_info",
      "get_candidate_info", "get_first_name", "set_tech_stack", "get_tech_stack",
      "set_current_tech", "get_current_tech", "increment_questions_asked",
      "get_questions_asked_count", "store_question", "get_current_question",
      "store_tech_questions", "get_tech_questions", "store_answer",
      "get_asked_questions", "mark_interview_complete", "is_interview_complete" }

\* whether self.state_manager.<method> resolves
HasMethod(method) == method \in StateManagerMethods

----------------------------------------------------------------------------
(* database/models.py: the store is the candidates table and the           *)
(* interview_responses table, each a sequence of rows                      *)

EmptyStore == [candidates |-> <<>>, responses |-> <<>>, issued |-> 0]

\* str(uuid.uuid4()): an identifier no earlier call returned
Uuid(n) == <<"<uuid>", ToString(n)>>

\* the primary key of the next row of a table
NextPk(rows) ==
    IF rows = <<>> THEN 1
    ELSE 1 + (CHOOSE m \in {rows[i].id : i \in 1..Len(rows)} :
                 \A i \in 1..Len(rows) : rows[i].id <= m)

\* create_candidate; ok is whether the session commits
create_candidate(db, candidate_data, consent_given, ok) ==
    LET candidate_id == Uuid(db.issued + 1)
        row == [ id               |-> NextPk(db.candidates),
                 candidate_id     |-> candidate_id,
                 name             |-> Get(candidate_data, "name", <<>>),
                 email            |-> Get(candidate_data, "email", <<>>),
                 phone            |-> Get(candidate_data, "phone", <<>>),
                 experience_years |-> Get(candidate_data, "experience", <<>>),
                 desired_position |-> Get(candidate_data, "position", <<>>),
                 location         |-> Get(candidate_data, "location", <<>>),
                 tech_stack       |-> Get(candidate_data, "tech_stack", <<>>),
                 consent_given    |-> consent_given,
                 expired          |-> FALSE ]
    IN  IF ok
        THEN [ db     |-> [db EXCEPT !.candidates = Append(@, row), !.issued = @ + 1],
               raised |-> FALSE, error |-> "", value |-> candidate_id ]
        ELSE [ db     |-> db,
               raised |-> TRUE, error |-> DATABASE_ERROR, value |-> None ]

RECURSIVE QaRows(_, _, _, _)
\* the rows of one technology's question/answer pairs
QaRows(pk, tech, qa_list, first_id) ==
    IF qa_list = <<>> THEN <<>>
    ELSE << [ id           |-> first_id,
              candidate_id |-> pk,
              technology   |-> tech,
              question     |-> Head(qa_list).question,
              answer       |-> Head(qa_list).answer ] >>
         \o QaRows(pk, tech, Tail(qa_list), first_id + 1)

RECURSIVE ResponseRows(_, _, _, _)
\* responses is the dictionary as a sequence of <<tech, qa_list>> items, in
\* insertion order
ResponseRows(pk, responses, i, first_id) ==
    IF i > Len(responses) THEN <<>>
    ELSE LET rows == QaRows(pk, responses[i][1], responses[i][2], first_id)
         IN  rows \o ResponseRows(pk, responses, i + 1, first_id + Len(rows))

\* a store that adds the rows without looking the candidate up
StoreWithoutLookup(db, candidate_id, responses, ok) ==
    [ db     |-> [db EXCEPT !.responses =
                     @ \o ResponseRows(0, responses, 1, NextPk(db.responses))],
      raised |-> FALSE, error |-> "" ]

\* store_interview_responses; ok is whether the session commits
store_interview_responses(db, candidate_id, responses, ok) ==
    LET found == {i \in 1..Len(db.candidates) : db.candidates[i].candidate_id = candidate_id}
    IN  IF found = {}
        THEN [db |-> db, raised |-> TRUE, error |-> VALUE_ERROR]
        ELSE IF ~ok
        THEN [db |-> db, raised |-> TRUE, error |-> DATABASE_ERROR]
        ELSE LET candidate == db.candidates[CHOOSE i \in found : \A j \in found : i <= j]
                 rows == ResponseRows(candidate.id, responses, 1, NextPk(db.responses))
             IN  [ db     |-> [db EXCEPT !.responses = @ \o rows],
                   raised |-> FALSE, error |-> "" ]

\* a placeholder that is built from the name it replaces
AnonymizeByPrefix(row) ==
    [row EXCEPT !.name = <<"Anonymized User ">> \o @,
                !.email = <<"anonymized", ToString(row.id), "@example.com">>,
                !.phone = <<"0", "0", "0", "0", "0", "0", "0", "0", "0", "0">>]

\* Candidate.anonymize
anonymize(row) ==
    [row EXCEPT !.name = <<"Anonymized User ", ToString(row.id)>>,
                !.email = <<"anonymized", ToString(row.id), "@example.com">>,
                !.phone = <<"0", "0", "0", "0", "0", "0", "0", "0", "0", "0">>]

\* anonymize_expired_data; a row is expired when anonymize_after <= now
anonymize_expired_data(db, ok) ==
    LET expired == {i \in 1..Len(db.candidates) : db.candidates[i].expired}
    IN  IF ~ok
        THEN [db |-> db, raised |-> TRUE, error |-> DATABASE_ERROR, value |-> None]
        ELSE [ db     |-> [db EXCEPT !.candidates =
                              [i \in 1..Len(@) |->
                                  IF i \in expired THEN anonymize(@[i]) ELSE @[i]]],
               raised |-> FALSE, error |-> "", value |-> Cardinality(expired) ]

\* a deletion that leaves the responses of the candidate in their table
DeleteCandidateOnly(db, candidate_id, ok) ==
    LET found == {i \in 1..Len(db.candidates) : db.candidates[i].candidate_id = candidate_id}
    IN  IF found = {}
        THEN [db |-> db, raised |-> FALSE, error |-> "", value |-> FALSE]
        ELSE [ db     |-> [db EXCEPT !.candidates =
                              SelectSeq(@, LAMBDA row : row.candidate_id # candidate_id)],
               raised |-> FALSE, error |-> "", value |-> TRUE ]

\* delete_candidate_data: session.delete(candidate) deletes the rows of
\* Candidate.responses with it (cascade="all, delete-orphan")
delete_candidate_data(db, candidate_id, ok) ==
    LET found == {i \in 1..Len(db.candidates) : db.candidates[i].candidate_id = candidate_id}
    IN  IF found = {}
        THEN [db |-> db, raised |-> FALSE, error |-> "", value |-> FALSE]
        ELSE IF ~ok
        THEN [db |-> db, raised |-> TRUE, error |-> DATABASE_ERROR, value |-> None]
        ELSE LET candidate == db.candidates[CHOOSE i \in found : \A j \in found : i <= j]
             IN  [ db     |-> [db EXCEPT
                                  !.candidates = SelectSeq(@, LAMBDA row : row.id # candidate.id),
                                  !.responses =
                                      SelectSeq(@, LAMBDA row : row.candidate_id # candidate.id)],
                   raised |-> FALSE, error |-> "", value |-> TRUE ]

----------------------------------------------------------------------------
(* chatbot_controller.py.  A controller c is the record of its attributes: *)
(* state (the state manager's dictionary), the consent flags,              *)
(* candidate_id, history (the chat session of the LLM client) and db (the  *)
(* store behind db_manager).  A call returns the controller afterwards and *)
(* what the caller sees: the returned text, or the exception raised.       *)
(* env holds what the collaborators do during the call: llm (whether the   *)
(* generation calls answer), texts (what the question-generation calls     *)
(* return), ack (the index random.choice draws) and db (whether the store  *)
(* commits).                                                               *)

Returned(c, text) == [c |-> c, raised |-> FALSE, value |-> text, error |-> ""]

Raised(c, error) == [c |-> c, raised |-> TRUE, value |-> <<>>, error |-> error]

\* self.state_manager.mark_interview_finished(), then what follows it
mark_interview_finished(c, then) ==
    IF HasMethod("mark_interview_finished") THEN then ELSE Raised(c, ATTRIBUTE_ERROR)

_create_candidate_record(c, env) ==
    LET r == create_candidate(c.db, c.state.candidate_info, c.consent_given, env.db)
    IN  IF r.raised THEN Raised([c EXCEPT !.db = r.db], r.error)
        ELSE Returned([c EXCEPT !.db = r.db, !.candidate_id = r.value], <<>>)

RECURSIVE CollectResponses(_, _, _)
\* the loop over get_tech_stack(): responses[tech] = qa_pairs when qa_pairs
CollectResponses(s, i, responses) ==
    IF i > Len(s.tech_stack) THEN responses
    ELSE LET tech     == s.tech_stack[i]
             qa_pairs == get_asked_questions(s, tech)
             seen     == \E k \in 1..Len(responses) : responses[k][1] = tech
         IN  CollectResponses(s, i + 1,
                 IF qa_pairs = <<>> \/ seen THEN responses
                 ELSE Append(responses, <<tech, qa_pairs>>))

\* a store of the pairs of the first technology only
StoreFirstTechnologyOnly(c, env) ==
    IF ~Truthy(c.candidate_id) \/ ~c.consent_given THEN Returned(c, <<>>)
    ELSE LET r == store_interview_responses(
                      c.db, c.candidate_id,
                      SubSeq(CollectResponses(c.state, 1, <<>>), 1, 1), env.db)
         IN  IF r.raised THEN Raised([c EXCEPT !.db = r.db], r.error)
             ELSE Returned([c EXCEPT !.db = r.db], <<>>)

_store_interview_responses(c, env) ==
    IF ~Truthy(c.candidate_id) \/ ~c.consent_given THEN Returned(c, <<>>)
    ELSE LET r == store_interview_responses(
                      c.db, c.candidate_id, CollectResponses(c.state, 1, <<>>), env.db)
         IN  IF r.raised THEN Raised([c EXCEPT !.db = r.db], r.error)
             ELSE Returned([c EXCEPT !.db = r.db], <<>>)

\* steps[current_index + 1], position being current_index + 1
\* the element before instead of the element after, wrapping at the start
PrevStep(steps, position) == steps[IF position = 1 THEN Len(steps) ELSE position - 1]

NextStep(steps, position) == steps[position + 1]

\* the guard of _create_candidate_record's call
\* the record created whatever the consent
AlwaysCreateRecord(c) == TRUE

ShouldCreateRecord(c) == c.consent_given

\* the guard of _store_interview_responses' call
ShouldStoreResponses(c) == c.consent_given /\ Truthy(c.candidate_id)

\* questions_asked >= 3
EnoughQuestions(questions_asked) == questions_asked >= QuestionsPerTech

\* what the generation calls of generate_tech_questions return
GenerationTexts(tech_stack, env) ==
    [i \in 1..Len(tech_stack) |-> IF env.llm THEN Strip(env.texts[i]) ELSE <<>>]

\* the end of the information-gathering branch, on controller c already set
\* up for the first technical question
CreateRecordIfConsented(c, env) ==
    IF ShouldCreateRecord(c) THEN _create_candidate_record(c, env)
    ELSE Returned(c, <<>>)

\* the tech_stack step's part of _store_user_response, s holding a tech stack
EnterTechnicalPhase(c, s, env) ==
    CreateRecordIfConsented(
        [c EXCEPT !.state =
            set_current_tech(
                update_current_step(
                    store_tech_questions(s,
                        generate_tech_questions(s.tech_stack,
                                                GenerationTexts(s.tech_stack, env))),
                    "technical_questions"),
                s.tech_stack[1])],
        env)

\* "Progress to the next step", s being the state with the field stored and
\* position the field's place in the flow
AdvanceStep(c, s, position, env) ==
    IF position < Len(INTERVIEW_FLOW_KEYS)
    THEN Returned([c EXCEPT !.state =
             update_current_step(s, NextStep(INTERVIEW_FLOW_KEYS, position))], <<>>)
    ELSE IF s.current_step # "tech_stack" THEN Returned([c EXCEPT !.state = s], <<>>)
    ELSE EnterTechnicalPhase(
             c, IF s.tech_stack = <<>> THEN set_tech_stack(s, <<GENERAL>>) ELSE s, env)

\* the field stored, and the tech stack parsed at the tech_stack step
StoreField(s, user_input) ==
    IF s.current_step = "tech_stack"
    THEN set_tech_stack(store_candidate_info(s, s.current_step, user_input),
                        parse_tech_stack(user_input))
    ELSE store_candidate_info(s, s.current_step, user_input)

\* the information-gathering branch of _store_user_response
StoreInfo(c, user_input, env) ==
    AdvanceStep(c, StoreField(c.state, user_input),
                Index(INTERVIEW_FLOW_KEYS, c.state.current_step), env)

\* "We've gone through all techs, conclude the interview"
Conclude(c, env) ==
    IF ShouldStoreResponses(c) THEN _store_interview_responses(c, env)
    ELSE Returned(c, <<>>)

\* the technical-questions branch after the answer is stored and counted in s
AfterAnswer(c, s, position, env) ==
    IF ~EnoughQuestions(s.questions_asked_for_current_tech)
    THEN Returned([c EXCEPT !.state = s], <<>>)
    ELSE IF position < Len(s.tech_stack)
    THEN Returned([c EXCEPT !.state =
             set_current_tech(s, NextStep(s.tech_stack, position))], <<>>)
    ELSE Conclude([c EXCEPT !.state =
                      mark_interview_complete(update_current_step(s, "complete"))], env)

\* the technical-questions branch of _store_user_response
StoreAnswer(c, user_input, env) ==
    AfterAnswer(c,
        increment_questions_asked(
            store_answer(c.state, c.state.current_tech, c.state.current_question,
                         user_input)),
        Index(c.state.tech_stack, c.state.current_tech), env)

\* the responses stored again by every turn taken once the step is complete
StoreAgainWhenComplete(c, user_input, env) ==
    IF c.state.current_step \in InfoSteps THEN StoreInfo(c, user_input, env)
    ELSE IF c.state.current_step = "technical_questions" THEN StoreAnswer(c, user_input, env)
    ELSE Conclude(c, env)

_store_user_response(c, user_input, env) ==
    IF c.state.current_step \in InfoSteps THEN StoreInfo(c, user_input, env)
    ELSE IF c.state.current_step = "technical_questions" THEN StoreAnswer(c, user_input, env)
    ELSE Returned(c, <<>>)

\* the questions _get_technical_question_response asks from
QuestionsFor(s, current_tech) ==
    IF Len(get_tech_questions(s, current_tech)) < QuestionsPerTech
    THEN LocalDefaultQuestions(current_tech)
    ELSE get_tech_questions(s, current_tech)

\* the generated text whatever it holds
PhrasedAsReturned(response, fallback) == response

\* the generated text when there is one, else the fallback
Phrased(response, fallback) == IF Strip(response) # <<>> THEN response ELSE fallback

\* the first question of a technology: questions_asked == 0
FirstQuestion(c, tech_questions, is_first_tech, env) ==
    Returned([c EXCEPT !.state = store_question(@, tech_questions[1])],
        Phrased(generate_response(env.llm,
                    IF is_first_tech THEN "tech_transition" ELSE "tech_transition_next"),
                (IF is_first_tech
                 THEN BASIC_ACKNOWLEDGMENT("tech_stack", c.state.first_name)
                      \o <<"<Now>">> \o c.state.current_tech
                 ELSE <<"<Great. Now>">> \o c.state.current_tech)
                \o <<"\n", "\n">> \o tech_questions[1]))

\* a later question of a technology, next_question being the one to ask
LaterQuestion(c, next_question, env) ==
    Returned([c EXCEPT !.state = store_question(@, next_question)],
        Phrased(IF get_asked_questions(c.state, c.state.current_tech) # <<>>
                THEN generate_response(env.llm, "next_tech_question") ELSE <<>>,
                ACKNOWLEDGMENT_RESPONSES[env.ack] \o <<" ">> \o next_question))

\* tech_questions[next_question_index], the index capped at the last one
NextQuestion(tech_questions, questions_asked) ==
    tech_questions[(IF questions_asked >= Len(tech_questions)
                    THEN Len(tech_questions) - 1 ELSE questions_asked) + 1]

AskFrom(c, tech_questions, env) ==
    IF c.state.questions_asked_for_current_tech = 0
    THEN FirstQuestion(c, tech_questions, c.state.current_tech = c.state.tech_stack[1], env)
    ELSE LaterQuestion(c,
             NextQuestion(tech_questions, c.state.questions_asked_for_current_tech), env)

_get_technical_question_response(c, user_input, env) ==
    AskFrom(c, QuestionsFor(c.state, c.state.current_tech), env)

\* the information-gathering branch of _get_next_response
AskField(c, position, env) ==
    IF position > 1
    THEN Returned(c,
             Phrased(generate_response(env.llm, "info_gathering"),
                     BASIC_ACKNOWLEDGMENT(INTERVIEW_FLOW_KEYS[position - 1],
                                          c.state.first_name)
                     \o <<" ">> \o INTERVIEW_FLOW(c.state.current_step)))
    ELSE Returned(c, INTERVIEW_FLOW(c.state.current_step))

\* the conclusion message of the complete branch
ConclusionMessage(c, env) ==
    IF c.consent_given THEN END_OF_INTERVIEW_DATA_NOTICE
    ELSE IF Strip(generate_response(env.llm, "conclusion")) = <<>> THEN CONCLUSION_MESSAGE
    ELSE generate_response(env.llm, "conclusion")

_get_next_response(c, user_input, env) ==
    IF c.state.current_step \in InfoSteps
    THEN AskField(c, Index(INTERVIEW_FLOW_KEYS, c.state.current_step), env)
    ELSE IF c.state.current_step = "technical_questions"
    THEN _get_technical_question_response(c, user_input, env)
    ELSE IF c.state.current_step = "complete"
    THEN mark_interview_finished(c, Returned(c, ConclusionMessage(c, env)))
    ELSE Returned(c, NOT_SURE_MESSAGE)

\* the outcome of the consent gate's reading of an input
ConsentReading(user_input) ==
    IF Lower(user_input) \in AFFIRMATIVE THEN "affirmed"
    ELSE IF Lower(user_input) \in NEGATIVE THEN "declined"
    ELSE "unrecognized"

\* returns None (value <<>>, no text) when the input is no clear answer
_process_consent_response(c, user_input) ==
    IF ConsentReading(user_input) = "affirmed"
    THEN Returned([c EXCEPT !.consent_given = TRUE,
                            !.history = add_to_history(@, user_input, CONSENT_GIVEN)],
                  CONSENT_GIVEN)
    ELSE IF ConsentReading(user_input) = "declined"
    THEN Returned([c EXCEPT !.history = add_to_history(@, user_input, CONSENT_DECLINED)],
                  CONSENT_DECLINED)
    ELSE Returned(c, <<>>)

IsExit(user_input) == Lower(Strip(user_input)) = EXIT_COMMAND

\* the test without the strip
IsEmpty(user_input) == user_input = <<>>

IsBlank(user_input) == Strip(user_input) = <<>>

\* the guard of the consent branch
\* the guard without its consent_requested half
ConsentGateShown(c) == c.gdpr_intro_shown

ConsentGateOpen(c) == c.gdpr_intro_shown /\ ~c.consent_requested

\* "if consent_response: return consent_response", else the re-prompt
ConsentReply(consent_response) ==
    IF consent_response.value # <<>> THEN consent_response
    ELSE Returned(consent_response.c, YES_NO_MESSAGE)

\* the consent branch of process_user_input
ConsentTurn(c, user_input) ==
    ConsentReply(_process_consent_response([c EXCEPT !.consent_requested = TRUE],
                                           user_input))

\* message = generate_response(...); if not message: message = the error
ValidationMessage(message, error) == IF message = <<>> THEN error ELSE message

\* the validation-error branch of process_user_input
ValidationErrorTurn(c, validation_result, env) ==
    Returned(c, ValidationMessage(generate_response(env.llm, "validation_error"),
                                  validation_result.error))

\* add_to_history(user_input, next_response); return next_response
RecordTurn(next, user_input) ==
    IF next.raised THEN next
    ELSE Returned([next.c EXCEPT !.history = add_to_history(@, user_input, next.value)],
                  next.value)

\* next_response = self._get_next_response(user_input), and what follows
Respond(stored, user_input, env) ==
    IF stored.raised THEN stored
    ELSE RecordTurn(_get_next_response(stored.c, user_input, env), user_input)

\* the last three statements of process_user_input
AnswerTurn(c, user_input, env) ==
    Respond(_store_user_response(c, user_input, env), user_input, env)

\* the answer taken whatever validate_input found
UnvalidatedTurn(c, user_input, validation_result, env) == AnswerTurn(c, user_input, env)

\* the validation branch and what follows it
ValidatedTurn(c, user_input, validation_result, env) ==
    IF ~validation_result.valid THEN ValidationErrorTurn(c, validation_result, env)
    ELSE AnswerTurn(c, user_input, env)

process_user_input(c, user_input, env) ==
    IF IsExit(user_input)
    THEN mark_interview_finished(c, Returned(c, EXIT_MESSAGE))
    ELSE IF IsBlank(user_input) THEN Returned(c, NO_INPUT_MESSAGE)
    ELSE IF ConsentGateOpen(c) THEN ConsentTurn(c, user_input)
    ELSE ValidatedTurn(c, user_input,
                       validate_input(c.state.current_step, user_input), env)

get_initial_prompt(c) == Returned([c EXCEPT !.gdpr_intro_shown = TRUE], GDPR_GREETING)

\* a reset that forgets the consent flags and the record id
ResetInterviewOnly(c) ==
    Returned([c EXCEPT !.history = <<>>, !.state = FreshState], <<>>)

reset_chat(c) ==
    Returned([c EXCEPT !.history = <<>>,
                       !.state = FreshState,
                       !.candidate_id = None,
                       !.consent_requested = FALSE,
                       !.consent_given = FALSE,
                       !.gdpr_intro_shown = FALSE], <<>>)

\* not self.state_manager.is_interview_finished()
can_continue_typing(c) ==
    IF HasMethod("is_interview_finished") THEN Returned(c, <<>>)
    ELSE Raised(c, ATTRIBUTE_ERROR)

\* ChatbotController.__init__ once its components are built, over a store
NewController(db) ==
    [ state             |-> FreshState,
      candidate_id      |-> None,
      consent_requested |-> FALSE,
      consent_given     |-> FALSE,
      gdpr_intro_shown  |-> FALSE,
      history           |-> <<>>,
      db                |-> db ]

\* a client that is built whatever the key
LLMClientAnyKey(api_key, environ_key) ==
    [raised |-> FALSE, error |-> "", api_key |-> api_key]

\* LLMClient.__init__: the key is the argument, or else the environment's
LLMClient(api_key, environ_key) ==
    LET key == IF Truthy(api_key) THEN api_key ELSE environ_key
    IN  IF ~Truthy(key)
        THEN [raised |-> TRUE, error |-> VALUE_ERROR, api_key |-> key]
        ELSE [raised |-> FALSE, error |-> "", api_key |-> key]

\* the session before a controller is constructed: no attribute is set and
\* no step is current
NoController ==
    [ state             |-> [current_step |-> "<None>"],
      candidate_id      |-> None,
      consent_requested |-> None,
      consent_given     |-> None,
      gdpr_intro_shown  |-> None,
      history           |-> None,
      db                |-> None ]

\* ChatbotController(api_key) where os.environ holds environ_key under
\* GOOGLE_API_KEY: the language-model client is the first component built
ChatbotController(api_key, environ_key, db) ==
    IF LLMClient(api_key, environ_key).raised
    THEN Raised(NoController, LLMClient(api_key, environ_key).error)
    ELSE Returned(NewController(db), <<>>)

----------------------------------------------------------------------------
(* The inputs explored.  Every turn is offered the exit and the blank      *)
(* inputs; the consent prompt and each step are offered the texts below.   *)

IN_EXIT == <<"e", "x", "i", "t">>
IN_EXIT_PADDED == <<" ", "E", "x", "i", "T", "\n">>
IN_EMPTY == <<>>
IN_SPACES == <<" ", "\t">>
IN_YES == <<"I", " ", "C", "o", "n", "s", "e", "n", "t">>
IN_NO == <<"n", "o">>
IN_MAYBE == <<"m", "a", "y", "b", "e">>
IN_EMAIL == <<"a", "@", "b", ".", "c", "o">>
IN_NOT_EMAIL == <<"a", "@", "b">>
IN_PHONE == <<"1", "2", "3", "4", "5", "6", "7">>
IN_NOT_PHONE == <<"1", "2", "3", "4", "5", "x", "7">>
IN_TECH_TWO == <<"P", "y", ",", " ", "g", "o">>
IN_TECH_SAME == <<"p", "y", ",", "P", "Y", " ">>
IN_TECH_NONE == <<" ", ",", " ">>

ExitInputs == {IN_EXIT, IN_EXIT_PADDED}

BlankInputs == {IN_EMPTY, IN_SPACES}

GateInputs == {IN_YES, IN_NO, IN_MAYBE}

StepInputs(step) ==
    CASE step = "name" -> {IN_YES}
      [] step = "email" -> {IN_EMAIL, IN_NOT_EMAIL, IN_PHONE}
      [] step = "phone" -> {IN_PHONE, IN_NOT_PHONE, IN_EMAIL}
      [] step = "tech_stack" -> {IN_TECH_TWO, IN_TECH_SAME, IN_TECH_NONE}
      [] OTHER -> {IN_NO}

\* what the question-generation call returns when it answers: two numbered
\* lines among others, or four numbered lines
TEXT_TWO == <<"1", ".", "A", "\n", "-", " ", "B", "\n", " ", "2", ".", " ", "C">>
TEXT_FOUR == <<"1", ".", "A", "\n", "2", ".", "B", "\n", "3", ".", "C", "\n", "3", ".", "D">>

QuestionTexts == {TEXT_TWO, TEXT_FOUR}

\* the draws of random.choice explored: the first and the last phrase
AckDraws == {1, Len(ACKNOWLEDGMENT_RESPONSES)}

----------------------------------------------------------------------------
(* The state machine: one controller over one store, driven through its    *)
(* public operations.                                                      *)

VARIABLES
    state,              \* state_manager.state
    candidate_id,       \* ChatbotController.candidate_id
    consent_requested,  \* ChatbotController.consent_requested
    consent_given,      \* ChatbotController.consent_given
    gdpr_intro_shown,   \* ChatbotController.gdpr_intro_shown
    history,            \* llm_client.chat_session.history
    db,                 \* the tables behind db_manager
    result,             \* what the last call gave its caller
    llm_up,             \* whether the generation service answers its calls
    gate                \* how the consent gate read each input it handled
                        \* since the last reset

vars == <<state, candidate_id, consent_requested, consent_given, gdpr_intro_shown,
          history, db, result, llm_up, gate>>

\* the controller's own variables
Controller == <<state, candidate_id, consent_requested, consent_given, gdpr_intro_shown,
                history, db>>

MaxCandidates == 1

MaxAnswers == 6

\* the controller the variables hold
Self ==
    [ state             |-> state,
      candidate_id      |-> candidate_id,
      consent_requested |-> consent_requested,
      consent_given     |-> consent_given,
      gdpr_intro_shown  |-> gdpr_intro_shown,
      history           |-> history,
      db                |-> db ]

\* the variables hold controller c afterwards
Becomes(c) ==
    /\ state' = c.state
    /\ candidate_id' = c.candidate_id
    /\ consent_requested' = c.consent_requested
    /\ consent_given' = c.consent_given
    /\ gdpr_intro_shown' = c.gdpr_intro_shown
    /\ history' = c.history
    /\ db' = c.db

\* the variables hold controller c
Holds(c) ==
    /\ state = c.state
    /\ candidate_id = c.candidate_id
    /\ consent_requested = c.consent_requested
    /\ consent_given = c.consent_given
    /\ gdpr_intro_shown = c.gdpr_intro_shown
    /\ history = c.history
    /\ db = c.db

\* what a call gave its caller, and whether its input was the exit command
Outcome(op, input, r) ==
    [op |-> op, exit |-> IsExit(input), raised |-> r.raised, value |-> r.value,
     error |-> r.error]

\* the inputs offered in the state
Offered ==
    ExitInputs \cup BlankInputs
    \cup (IF ConsentGateOpen(Self) THEN GateInputs ELSE StepInputs(state.current_step))

\* what the collaborators may do during a turn on user_input
Envs(user_input) ==
    LET storing == ~IsExit(user_input) /\ ~IsBlank(user_input) /\ ~ConsentGateOpen(Self)
        n       == IF storing /\ state.current_step = "tech_stack" /\ llm_up
                   THEN Len(parse_tech_stack(user_input)) ELSE 0
    IN  [ llm   : {llm_up},
          texts : [1..n -> QuestionTexts],
          ack   : IF storing /\ state.current_step = "technical_questions" /\ ~llm_up
                  THEN AckDraws ELSE {1},
          db    : IF /\ storing /\ consent_given
                     /\ state.current_step \in {"tech_stack", "technical_questions"}
                  THEN BOOLEAN ELSE {TRUE} ]

Init ==
    /\ Holds(NewController(EmptyStore))
    /\ result = Outcome("__init__", <<>>, Returned(Self, <<>>))
    /\ llm_up \in BOOLEAN
    /\ gate = <<>>


\* the turns explored: until a technology holds MaxAnswers answers, and in
\* a session without a record only while the store holds fewer than
\* MaxCandidates records
WithinBounds ==
    /\ \A tech \in DOMAIN state.asked_questions :
           Len(state.asked_questions[tech]) < MaxAnswers
    /\ Truthy(candidate_id) \/ Len(db.candidates) < MaxCandidates

\* a turn: process_user_input(user_input)
Turn(user_input, env) ==
    \E r \in {process_user_input(Self, user_input, env)} :
        /\ Becomes(r.c)
        /\ result' = Outcome("process_user_input", user_input, r)
        /\ gate' = IF ~IsExit(user_input) /\ ~IsBlank(user_input) /\ ConsentGateOpen(Self)
                   THEN Append(gate, ConsentReading(user_input)) ELSE gate
        /\ UNCHANGED llm_up

ProcessUserInput ==
    /\ WithinBounds
    /\ \E user_input \in Offered : \E env \in Envs(user_input) : Turn(user_input, env)

\* get_initial_prompt(): explored where it changes the controller (a call
\* with gdpr_intro_shown already True sets it to True again)
GetInitialPrompt ==
    \E r \in {get_initial_prompt(Self)} :
        /\ ~gdpr_intro_shown
        /\ Becomes(r.c)
        /\ result' = Outcome("get_initial_prompt", <<>>, r)
        /\ UNCHANGED <<llm_up, gate>>

ResetChat ==
    \E r \in {reset_chat(Self)} :
        /\ Becomes(r.c)
        /\ result' = Outcome("reset_chat", <<>>, r)
        /\ gate' = <<>>
        /\ UNCHANGED llm_up

CanContinueTyping ==
    \E r \in {can_continue_typing(Self)} :
        /\ Becomes(r.c)
        /\ result' = Outcome("can_continue_typing", <<>>, r)
        /\ UNCHANGED <<llm_up, gate>>

Next ==
    \/ ProcessUserInput
    \/ GetInitialPrompt
    \/ ResetChat
    \/ CanContinueTyping

Spec == Init /\ [][Next]_vars

\* one conversation: the controller from its construction to the end of the
\* interview, the "Reset Interview" button never pressed
ConversationNext ==
    \/ ProcessUserInput
    \/ GetInitialPrompt

Conversation == Init /\ [][ConversationNext]_vars

----------------------------------------------------------------------------
(* The session of main.py: the controller is constructed first, and turns  *)
(* are taken only once a construction has succeeded.                       *)

API_KEY == <<"<key>">>

\* what the argument and the environment may hold: nothing, "" or a key
ApiKeys == {None, <<>>, API_KEY}

\* st.session_state.chat_initialized
ChatInitialized == state.current_step # "<None>"

\* what a construction gave its caller, and the keys it read
Constructed(api_key, environ_key, r) ==
    [op |-> "__init__", exit |-> FALSE, raised |-> r.raised, value |-> r.value,
     error |-> r.error, api_key |-> api_key, environ_key |-> environ_key]

SessionInit ==
    /\ Holds(NoController)
    /\ result = Outcome("main", <<>>, Returned(Self, <<>>))
    /\ llm_up \in BOOLEAN
    /\ gate = <<>>

\* initialize_session_state, and the key form of main: a construction
\* that raises leaves the session without a controller
InitializeSessionState ==
    /\ ~ChatInitialized
    /\ \E api_key \in ApiKeys : \E environ_key \in ApiKeys :
       \E r \in {ChatbotController(api_key, environ_key, EmptyStore)} :
           /\ Becomes(r.c)
           /\ result' = Constructed(api_key, environ_key, r)
           /\ UNCHANGED <<llm_up, gate>>

\* main stops before the chat input while chat_initialized is False
SessionNext ==
    \/ InitializeSessionState
    \/ ChatInitialized /\ Next

Session == SessionInit /\ [][SessionNext]_vars

----------------------------------------------------------------------------
(* The helper functions called on their own: an input is drawn, then the   *)
(* function is applied to it.                                              *)

MaxPieces == 5

\* s[1], c, s[2], c, ..., s[n]
RECURSIVE Join(_, _)
Join(s, c) ==
    IF s = <<>> THEN <<>>
    ELSE IF Len(s) = 1 THEN s[1]
    ELSE s[1] \o <<c>> \o Join(Tail(s), c)

\* what stands between two commas of a tech stack text, each with the
\* technology it names
TechPieces ==
    { [raw |-> <<>>,                   token |-> <<>>],
      [raw |-> <<" ">>,                token |-> <<>>],
      [raw |-> <<"g", "o">>,           token |-> <<"g", "o">>],
      [raw |-> <<" ", "P", "y", "\t">>, token |-> <<"p", "y">>],
      [raw |-> <<"C", " ", "x">>,      token |-> <<"c", " ", "x">>] }

TechInputs ==
    { [kind |-> "tech_stack_input", pieces |-> pieces] :
          pieces \in UNION { [1..n -> TechPieces] : n \in 1..MaxPieces } }

\* the argument made of the pieces of an input
TextOf(input, c) == Join([i \in 1..Len(input.pieces) |-> input.pieces[i].raw], c)

\* an input drawn, not yet passed to its function
Drawn(input) == [op |-> "input", input |-> input, value |-> <<>>]

\* what a function returned for the input
Applied(op, input, value) == [op |-> op, input |-> input, value |-> value]

MaxLines == 3

\* the lines a generation text may hold, each with whether it carries one
\* of the numbers 1 to 3 and the question it then states
ResponseLines ==
    { [raw |-> <<"1", ".", "A">>,            kept |-> TRUE,  question |-> <<"A">>],
      [raw |-> <<" ", "2", ".", " ", "B", "\t">>, kept |-> TRUE, question |-> <<"B">>],
      [raw |-> <<"3", ".">>,                 kept |-> TRUE,  question |-> <<>>],
      [raw |-> <<"1", ".", "2", " ", "C">>,  kept |-> TRUE,  question |-> <<"2", " ", "C">>],
      [raw |-> <<"-", " ", "X", "?">>,       kept |-> FALSE, question |-> <<>>],
      [raw |-> <<>>,                         kept |-> FALSE, question |-> <<>>],
      [raw |-> <<"4", ".", "D">>,            kept |-> FALSE, question |-> <<>>],
      [raw |-> <<"1", "0", ".", "E">>,       kept |-> FALSE, question |-> <<>>] }

ResponseInputs ==
    { [kind |-> "response", pieces |-> pieces] :
          pieces \in UNION { [1..n -> ResponseLines] : n \in 1..MaxLines } }

MaxParsed == 4

\* the numbered lines of the generation texts passed to the generator
GeneratedLines == { line \in ResponseLines : line.question \in {<<"A">>, <<"B">>} }

\* a generation text of 0 to MaxParsed numbered lines
GeneratedTexts ==
    { [pieces |-> pieces] :
          pieces \in UNION { [1..n -> GeneratedLines] : n \in 0..MaxParsed } }

\* the stacks passed to the generator: one technology, two, and one twice
TechStacks ==
    { << <<"p", "y">> >>, << <<"p", "y">>, <<"g", "o">> >>,
      << <<"p", "y">>, <<"p", "y">> >> }

GenerationInputs ==
    UNION { { [kind |-> "generation", tech_stack |-> tech_stack, responses |-> responses] :
                  responses \in [1..Len(tech_stack) -> GeneratedTexts] } :
            tech_stack \in TechStacks }

FunctionInputs == TechInputs \cup ResponseInputs \cup GenerationInputs

FunctionsInit ==
    /\ Holds(NewController(EmptyStore))
    /\ llm_up = TRUE
    /\ gate = <<>>
    /\ result \in { Drawn(input) : input \in FunctionInputs }

ParseTechStack ==
    /\ result.op = "input"
    /\ result.input.kind = "tech_stack_input"
    /\ result' = Applied("parse_tech_stack", result.input,
                         parse_tech_stack(TextOf(result.input, ",")))
    /\ UNCHANGED <<Controller, llm_up, gate>>

ParseQuestionsFromResponse ==
    /\ result.op = "input"
    /\ result.input.kind = "response"
    /\ result' = Applied("parse_questions_from_response", result.input,
                         parse_questions_from_response(TextOf(result.input, "\n")))
    /\ UNCHANGED <<Controller, llm_up, gate>>

\* generate_tech_questions where the i-th generation call returns the
\* i-th text
GenerateTechQuestions ==
    /\ result.op = "input"
    /\ result.input.kind = "generation"
    /\ result' = Applied("generate_tech_questions", result.input,
                         generate_tech_questions(
                             result.input.tech_stack,
                             [i \in 1..Len(result.input.tech_stack) |->
                                  TextOf(result.input.responses[i], "\n")]))
    /\ UNCHANGED <<Controller, llm_up, gate>>

FunctionsNext ==
    \/ ParseTechStack
    \/ ParseQuestionsFromResponse
    \/ GenerateTechQuestions

Functions == FunctionsInit /\ [][FunctionsNext]_vars

----------------------------------------------------------------------------
(* The store on its own: DatabaseManager driven through its operations     *)
(* while the retention deadlines of its records pass.                      *)

MaxRecords == 2

MaxResponses == 2

\* the candidate_data passed to create_candidate
CandidateData ==
    { [ name |-> name, email |-> IN_EMAIL, phone |-> IN_PHONE, experience |-> <<"3">>,
        position |-> <<"d", "e", "v">>, location |-> <<"X">>,
        tech_stack |-> <<"p", "y">> ] : name \in {<<"A", "n", "n">>, <<"B", "o">>} }

\* the responses passed to store_interview_responses: one pair for one
\* technology
ResponsesStored ==
    << << <<"p", "y">>, << [question |-> <<"Q">>, answer |-> <<"A">>] >> >> >>

\* the ids passed to the operations: issued, deleted or never issued
CandidateIds == { Uuid(n) : n \in 1..MaxRecords }

\* what a call to the store gave its caller
StoreOutcome(op, id, r) ==
    [op |-> op, candidate_id |-> id, raised |-> r.raised, value |-> r.value,
     error |-> r.error]

StoreInit ==
    /\ Holds(NewController(EmptyStore))
    /\ result = StoreOutcome("__init__", None, Returned(Self, <<>>))
    /\ llm_up = TRUE
    /\ gate = <<>>

StoreFrame == UNCHANGED <<state, candidate_id, consent_requested, consent_given,
                          gdpr_intro_shown, history, llm_up, gate>>

CreateCandidate ==
    /\ db.issued < MaxRecords
    /\ \E candidate_data \in CandidateData : \E ok \in BOOLEAN :
       \E r \in {create_candidate(db, candidate_data, TRUE, ok)} :
           /\ db' = r.db
           /\ result' = StoreOutcome("create_candidate", None, r)
           /\ StoreFrame

StoreInterviewResponses ==
    /\ Len(db.responses) < MaxResponses
    /\ \E id \in CandidateIds : \E ok \in BOOLEAN :
       \E r \in {store_interview_responses(db, id, ResponsesStored, ok)} :
           /\ db' = r.db
           /\ result' = StoreOutcome("store_interview_responses", id,
                                     [raised |-> r.raised, error |-> r.error,
                                      value |-> None])
           /\ StoreFrame

\* time passes the anonymize_after of the oldest record it had not passed
RetentionPasses ==
    \E i \in 1..Len(db.candidates) :
        /\ ~db.candidates[i].expired
        /\ \A j \in 1..(i - 1) : db.candidates[j].expired
        /\ db' = [db EXCEPT !.candidates[i].expired = TRUE]
        /\ result' = StoreOutcome("utcnow", None, Returned(Self, <<>>))
        /\ StoreFrame

AnonymizeExpiredData ==
    \E ok \in BOOLEAN : \E r \in {anonymize_expired_data(db, ok)} :
        /\ db' = r.db
        /\ result' = StoreOutcome("anonymize_expired_data", None, r)
        /\ StoreFrame

DeleteCandidateData ==
    \E id \in CandidateIds : \E ok \in BOOLEAN :
    \E r \in {delete_candidate_data(db, id, ok)} :
        /\ db' = r.db
        /\ result' = StoreOutcome("delete_candidate_data", id, r)
        /\ StoreFrame

StoreNext ==
    \/ CreateCandidate
    \/ StoreInterviewResponses
    \/ RetentionPasses
    \/ AnonymizeExpiredData
    \/ DeleteCandidateData

Store == StoreInit /\ [][StoreNext]_vars

----------------------------------------------------------------------------
(* The properties.                                                         *)

\* the order current_step is meant to follow
StepOrder == INTERVIEW_FLOW_KEYS \o <<"technical_questions", "complete">>

StepRank(step) == Index(StepOrder, step)

\* the consent gate has read an input as a clear answer since the last reset
GateDecided == \E i \in 1..Len(gate) : gate[i] \in {"affirmed", "declined"}

\* the step taken is a call of process_user_input
IsTurn == result'.op = "process_user_input"

\* C1: short of reset_chat, every step of the program leaves current_step
\* where it is or moves it to the next step of the order name, email, phone,
\* experience, position, location, tech_stack, technical_questions, complete:
\* never backward, and never past a step.
C1_StepOnlyForward ==
    [][result'.op # "reset_chat" =>
          StepRank(state'.current_step)
              \in {StepRank(state.current_step), StepRank(state.current_step) + 1}]_vars

\* a session that went through the seven fields and the questions to the end
C1_Witness ==
    /\ state.current_step = "complete"
    /\ DOMAIN state.candidate_info = InfoSteps

\* C2: when a turn of the technical phase moves on to the next technology
\* (the counter is set back to 0) or to complete, asked_questions holds
\* exactly 3 answers for the technology that was current.
C2_ThreeAnswersThenOn ==
    [][(/\ IsTurn
        /\ state.current_step = "technical_questions"
        /\ \/ state'.current_step = "complete"
           \/ /\ state.questions_asked_for_current_tech # 0
              /\ state'.questions_asked_for_current_tech = 0)
       => Len(get_asked_questions(state', state.current_tech)) = QuestionsPerTech]_vars

\* C3: asked_questions[tech] never holds more than 3 answers, and a step
\* lengthens it only when tech is the current technology before the step.
C3_AtMostThreeAndOnlyCurrent ==
    [][\A tech \in DOMAIN state'.asked_questions :
          /\ Len(state'.asked_questions[tech]) <= QuestionsPerTech
          /\ Len(state'.asked_questions[tech]) > Len(get_asked_questions(state, tech))
                 => state.current_tech = tech]_vars

\* C4: with the generation service failing every call, every call of
\* process_user_input on a non-exit input that the store does not fail
\* returns a non-empty text.
C4_FallbackTextEveryTurn ==
    (/\ ~llm_up
     /\ result.op = "process_user_input"
     /\ ~result.exit
     /\ result.error \notin {DATABASE_ERROR, VALUE_ERROR})
    => (~result.raised /\ result.value # <<>>)

\* C5: process_user_input on an input that is "exit" once stripped and
\* lowered returns the closing acknowledgment.
C5_ExitReturnsClosing ==
    (result.op = "process_user_input" /\ result.exit)
    => (~result.raised /\ result.value = EXIT_MESSAGE)

\* C6: the call of process_user_input that follows a turn which came to the
\* point of finishing the interview (the exit branch or the conclusion
\* branch, where mark_interview_finished is called) changes nothing of the
\* interview state, the consent state or the store.
C6_FinishedIsTerminal ==
    [][(/\ result.op = "process_user_input"
        /\ result.error = ATTRIBUTE_ERROR
        /\ IsTurn)
       => UNCHANGED <<state, candidate_id, consent_requested, consent_given, db>>]_vars

\* C7: a step that writes to the store, or that fails in a call of
\* create_candidate or store_interview_responses, starts and ends with
\* consent_given True; a session without consent leaves the store alone.
C7_WritesOnlyWithConsent ==
    [][(db' # db \/ (IsTurn /\ result'.error \in {DATABASE_ERROR, VALUE_ERROR}))
       => (consent_given /\ consent_given')]_vars

\* a declined session run to its end, the store still empty
C7_Witness ==
    /\ gate = <<"declined">>
    /\ ~consent_given
    /\ state.current_step = "complete"
    /\ db = EmptyStore

\* C8: a turn in which the consent gate reads the input as no clear answer
\* returns the yes/no re-prompt and leaves current_step, candidate_info (all
\* of state), consent_requested and consent_given as they were.
C8_UnrecognizedChangesNothing ==
    [][gate' = Append(gate, "unrecognized")
       => /\ result'.value = YES_NO_MESSAGE
          /\ UNCHANGED <<state, candidate_id, consent_requested, consent_given>>]_vars

\* C9: whenever candidate_info is non-empty, the consent gate has read an
\* earlier input of the session as Affirmed or Declined.
C9_ConsentBeforeFields == state.candidate_info # EmptyDict => GateDecided

\* C10: once the consent gate has read an input as Affirmed or Declined, no
\* step other than reset_chat changes consent_given.
C10_ConsentOutcomeImmutable ==
    [][(GateDecided /\ result'.op # "reset_chat") => consent_given' = consent_given]_vars

\* a declined session that was later given an affirmative phrase, as the name
C10_Witness ==
    /\ gate = <<"declined">>
    /\ Get(state.candidate_info, "name", <<>>) = IN_YES
    /\ ConsentReading(IN_YES) = "affirmed"
    /\ ~consent_given

\* the step taken fails in a call of the store
StoreCallFails == IsTurn /\ result'.error \in {DATABASE_ERROR, VALUE_ERROR}

\* C11: the candidates table changes only in a turn that stores the
\* tech_stack field, of a session that holds no record yet, and gains one row
\* whose id the session then holds; the responses table changes only in the
\* turn that moves the step from technical_questions to complete; a store
\* call fails only in one of those two turns; and no step other than a turn
\* changes the store.
C11_WritesAtTwoPointsOnly ==
    [][/\ db'.candidates # db.candidates
          => /\ IsTurn
             /\ state.current_step = "tech_stack"
             /\ state'.current_step = "technical_questions"
             /\ ~Truthy(candidate_id)
             /\ Truthy(candidate_id')
             /\ Len(db'.candidates) = Len(db.candidates) + 1
             /\ db'.candidates[Len(db'.candidates)].candidate_id = candidate_id'
       /\ db'.responses # db.responses
          => /\ IsTurn
             /\ state.current_step = "technical_questions"
             /\ state'.current_step = "complete"
       /\ StoreCallFails
          => \/ state.current_step = "tech_stack"
             \/ state.current_step = "technical_questions"
                /\ state'.current_step = "complete"
       /\ ~IsTurn => db' = db]_vars

\* a consenting session at its end, its record created and its answers stored
C11_Witness ==
    /\ consent_given
    /\ state.current_step = "complete"
    /\ Len(db.candidates) = 1
    /\ Len(db.responses) >= QuestionsPerTech

\* everything the controller holds
\* the texts a rejected input is answered with: the generated phrasing, or
\* the validator's own text when the generation fails
ValidationTexts == {generate_response(TRUE, "validation_error"), EMAIL_ERROR, PHONE_ERROR}

\* the inputs explored that are no email address, and those that are no
\* phone number
RejectedEmails == {IN_NOT_EMAIL, IN_PHONE}

RejectedPhones == {IN_NOT_PHONE, IN_EMAIL}

\* C12: a turn that returns a validation-error message changes nothing the
\* controller holds (current_step, candidate_info, tech_stack,
\* asked_questions, the store); with the generation failing the message is
\* the validator's text for the step; and no turn at step email or phone
\* that changes the state has stored a rejected input.
C12_RejectedInputChangesNothing ==
    [][IsTurn =>
          /\ result'.value \in ValidationTexts
                => /\ UNCHANGED Controller
                   /\ state.current_step \in {"email", "phone"}
                   /\ ~llm_up => result'.value = IF state.current_step = "email"
                                                 THEN EMAIL_ERROR ELSE PHONE_ERROR
          /\ (state' # state /\ state.current_step = "email")
                => Get(state'.candidate_info, "email", <<>>) \notin RejectedEmails
          /\ (state' # state /\ state.current_step = "phone")
                => Get(state'.candidate_info, "phone", <<>>) \notin RejectedPhones]_vars

\* a rejected email address just answered with the validator's text
C12_Witness ==
    /\ result.op = "process_user_input"
    /\ result.value = EMAIL_ERROR
    /\ state.current_step = "email"
    /\ "email" \notin DOMAIN state.candidate_info

\* C13: in every reachable state, process_user_input on an empty or
\* whitespace-only input returns the fixed re-prompt and leaves the
\* controller as it is, whatever the collaborators would do; so an open
\* consent gate stays open.
C13_BlankInputChangesNothing ==
    \A user_input \in BlankInputs : \A env \in Envs(user_input) :
        process_user_input(Self, user_input, env) = Returned(Self, NO_INPUT_MESSAGE)

\* a blank input just answered at the open consent gate
C13_Witness ==
    /\ result.op = "process_user_input"
    /\ result.value = NO_INPUT_MESSAGE
    /\ ConsentGateOpen(Self)
    /\ gate = <<>>

\* C14: every call of process_user_input adds two entries to the chat
\* history: the user's input, then the message the call returned.
C14_EveryTurnRecorded ==
    [][IsTurn =>
          /\ Len(history') = Len(history) + 2
          /\ SubSeq(history', 1, Len(history)) = history
          /\ history'[Len(history') - 1].role = "user"
          /\ history'[Len(history')] = [role |-> "model", parts |-> <<result'.value>>]]_vars

\* the interview state a turn offered in the state leaves when the store
\* commits whatever it is asked to
StatesWhenStoreCommits ==
    UNION { { process_user_input(Self, user_input, env).c.state :
                  env \in {e \in Envs(user_input) : e.db} } :
            user_input \in Offered }

\* C15: when a turn raises, the interview state afterwards is the state
\* before the turn or the state the turn leaves when nothing fails in the
\* store, current_question included.
C15_TurnAllOrNothing ==
    [][(IsTurn /\ result'.raised)
       => (state' = state \/ state' \in StatesWhenStoreCommits)]_vars

\* C16: the turn that follows a turn in which the store failed does not
\* raise and does not write to the store: the session goes on to take the
\* answer, or delivers the conclusion that finishes it.
C16_FailedWriteDoesNotStopSession ==
    [][(/\ result.op = "process_user_input"
        /\ result.error = DATABASE_ERROR
        /\ IsTurn
        /\ ~result'.exit)
       => (~result'.raised /\ db' = db)]_vars

\* a generated text without a numbered line
TEXT_UNNUMBERED == <<"A", "?", "\n", "4", ".", "B">>

\* what a generation call may hand generate_tech_questions: nothing (the
\* call failed or returned no text), or a text with no, two or four numbered
\* lines
GenerationOutcomes == {<<>>, TEXT_UNNUMBERED} \cup QuestionTexts

\* the state is the one the tech_stack turn leaves
TechnicalPhaseEntered ==
    /\ state.current_step = "technical_questions"
    /\ state.questions_asked_for_current_tech = 0
    /\ state.asked_questions = EmptyDict

\* C17: whenever current_tech is set, tech_questions holds exactly 3
\* questions for it and for every technology of tech_stack; and for the
\* tech_stack just parsed, generate_tech_questions returns exactly 3
\* questions for each technology whatever each generation call returned.
C17_ThreeQuestionsPerTechnology ==
    /\ Truthy(state.current_tech)
          => \A i \in 1..Len(state.tech_stack) :
                 Len(get_tech_questions(state, state.tech_stack[i])) = QuestionsPerTech
    /\ TechnicalPhaseEntered
          => \A texts \in [1..Len(state.tech_stack) -> GenerationOutcomes] :
                 \E q \in {generate_tech_questions(state.tech_stack, texts)} :
                     /\ DOMAIN q = Range(state.tech_stack)
                     /\ \A tech \in DOMAIN q : Len(q[tech]) = QuestionsPerTech

\* a technology whose questions are the first three of four generated ones
C17_Witness ==
    /\ Truthy(state.current_tech)
    /\ get_tech_questions(state, state.current_tech) = << <<"A">>, <<"B">>, <<"C">> >>

\* C18: a step that lengthens asked_questions[tech] to n pairs appends the
\* pair of tech's n-th question (tech_questions[tech][n-1] in the code's
\* counting), which is the current_question before the step, with an answer
\* offered in the technical phase.
C18_AnswersPairedWithQuestions ==
    [][\A tech \in DOMAIN state'.asked_questions :
          \E n \in {Len(state'.asked_questions[tech])} :
              n > Len(get_asked_questions(state, tech))
              => /\ n <= Len(get_tech_questions(state', tech))
                 /\ state'.asked_questions[tech][n].question
                        = get_tech_questions(state', tech)[n]
                 /\ state'.asked_questions[tech][n].question = state.current_question
                 /\ state'.asked_questions[tech][n].answer
                        \in StepInputs("technical_questions")]_vars

RECURSIVE AnswersUpTo(_, _)
\* the number of answers recorded for the first i technologies of the
\* stack, a technology named twice counted once
AnswersUpTo(s, i) ==
    IF i = 0 THEN 0
    ELSE AnswersUpTo(s, i - 1)
         + (IF \E j \in 1..(i - 1) : s.tech_stack[j] = s.tech_stack[i] THEN 0
            ELSE Len(get_asked_questions(s, s.tech_stack[i])))

\* C19: in the technical phase the technology being interviewed is the one
\* at the position of tech_stack that the answers so far have reached, 3
\* answers to a position: position 1 first, each position once, none after
\* the last.
C19_TechnologiesInStackOrder ==
    state.current_step = "technical_questions"
    => \E answered \in {AnswersUpTo(state, Len(state.tech_stack))} :
           /\ answered < QuestionsPerTech * Len(state.tech_stack)
           /\ state.current_tech = state.tech_stack[(answered \div QuestionsPerTech) + 1]

\* the texts the conclusion is delivered in
ConclusionTexts ==
    {END_OF_INTERVIEW_DATA_NOTICE, CONCLUSION_MESSAGE, generate_response(TRUE, "conclusion")}

\* C20: the turn on which current_step becomes complete, the store not
\* failing, returns the conclusion message and leaves the session finished:
\* interview_complete is True and can_continue_typing() returns.
C20_ConclusionFinishesSession ==
    [][(/\ IsTurn
        /\ state.current_step = "technical_questions"
        /\ state'.current_step = "complete"
        /\ ~StoreCallFails)
       => /\ ~result'.raised
          /\ result'.value \in ConclusionTexts
          /\ state'.interview_complete
          /\ ~can_continue_typing(Self').raised]_vars

\* C21: from every reachable state, calling reset_chat a second time leaves
\* the controller (interview state, consent flags, candidate_id, history)
\* exactly as the first call left it, which is the state a newly
\* constructed controller over the same store has.
C21_ResetTwiceAsOnce ==
    \A once \in {reset_chat(Self).c} :
        /\ reset_chat(once).c = once
        /\ once = NewController(db)

\* a reset has acted on a session that had given consent and written its
\* record
C21_Witness ==
    /\ result.op = "reset_chat"
    /\ Len(db.candidates) > 0
    /\ Holds(reset_chat(Self).c)

\* C22: a construction that finds no key, neither in its argument nor in
\* the environment, raises and leaves the session without a controller, and
\* while the session has no controller no turn has been processed: the last
\* call is the start of main or a construction that raised.
C22_NoKeyNoSession ==
    /\ (/\ result.op = "__init__"
        /\ ~Truthy(result.api_key)
        /\ ~Truthy(result.environ_key))
       => result.raised /\ result.error = VALUE_ERROR /\ ~ChatInitialized
    /\ ~ChatInitialized
       => \/ result.op = "main"
          \/ result.op = "__init__" /\ result.raised

\* a construction with neither argument nor environment key has raised
C22_Witness ==
    /\ result.op = "__init__"
    /\ result.api_key = None
    /\ result.environ_key = None
    /\ result.raised
    /\ Holds(NoController)

\* the technologies a tech stack input names, in order
NamedTechnologies(input) ==
    SelectSeq([i \in 1..Len(input.pieces) |-> input.pieces[i].token],
              LAMBDA token : token # <<>>)

\* C23: parse_tech_stack returns the first 4 non-empty comma-separated
\* tokens of its text, trimmed and lowercased, in their order, or
\* ["general"] when there is none; the result holds between 1 and 4
\* technologies.
C23_FirstFourTokensOrGeneral ==
    result.op = "parse_tech_stack"
    => \E named \in {NamedTechnologies(result.input)} :
           /\ Len(result.value) \in 1..MaxTechs
           /\ named = <<>> => result.value = <<GENERAL>>
           /\ named # <<>>
              => /\ Len(result.value) = IF Len(named) < MaxTechs THEN Len(named)
                                        ELSE MaxTechs
                 /\ \A i \in 1..Len(result.value) : result.value[i] = named[i]

\* five technologies were named, with blanks and capitals, and four returned
C23_Witness ==
    /\ result.op = "parse_tech_stack"
    /\ Len(NamedTechnologies(result.input)) = MaxTechs + 1
    /\ \E i \in 1..Len(result.input.pieces) :
           result.input.pieces[i].raw # result.input.pieces[i].token
    /\ Len(result.value) = MaxTechs

\* the questions of the numbered lines among pieces, in order
KeptQuestions(pieces) ==
    LET kept == SelectSeq(pieces, LAMBDA line : line.kept)
    IN  [i \in 1..Len(kept) |-> kept[i].question]

\* the parsed questions first, then the default questions of the missing
\* positions, three in all
ParsedThenDefaults(parsed, tech) ==
    [j \in 1..QuestionsPerTech |->
        IF j <= Len(parsed) THEN parsed[j] ELSE get_default_questions(tech)[j]]

\* C29: for each technology of the stack, generate_tech_questions returns
\* the k questions parsed from the text generated for it followed by the
\* default questions of positions k+1 to 3 when k < 3, and the first 3
\* parsed questions when k >= 3; the i-th text goes with the i-th technology
\* and no other text matters to it (for a name given twice, the entry is
\* the one of its last position, the mapping holding one entry per name).
C29_ParsedThenDefaultsPerTechnology ==
    result.op = "generate_tech_questions"
    => /\ DOMAIN result.value = Range(result.input.tech_stack)
       /\ \A i \in 1..Len(result.input.tech_stack) :
              (\A j \in (i + 1)..Len(result.input.tech_stack) :
                   result.input.tech_stack[j] # result.input.tech_stack[i])
              => result.value[result.input.tech_stack[i]]
                     = ParsedThenDefaults(KeptQuestions(result.input.responses[i].pieces),
                                          result.input.tech_stack[i])

\* two technologies: one line was parsed for the first, four for the second
C29_Witness ==
    /\ result.op = "generate_tech_questions"
    /\ Len(result.input.tech_stack) = 2
    /\ result.input.tech_stack[1] # result.input.tech_stack[2]
    /\ Len(result.input.responses[1].pieces) = 1
    /\ Len(result.input.responses[2].pieces) = MaxParsed
    /\ result.value[result.input.tech_stack[1]][2]
           = get_default_questions(result.input.tech_stack[1])[2]

\* C30: parse_questions_from_response returns, in order, the lines that
\* after trimming begin with "1.", "2." or "3.", each without its numeral,
\* period and following whitespace, and no other line; when no line is
\* kept the result is empty and generate_tech_questions on that text
\* returns the three default questions.
C30_OnlyLinesNumberedOneToThree ==
    result.op = "parse_questions_from_response"
    => /\ result.value = KeptQuestions(result.input.pieces)
       /\ KeptQuestions(result.input.pieces) = <<>>
          => \A tech \in {GENERAL} :
                 generate_tech_questions(<<tech>>, <<Strip(TextOf(result.input, "\n"))>>)[tech]
                     = get_default_questions(tech)

\* a text of numbered and other lines has been parsed
C30_Witness ==
    /\ result.op = "parse_questions_from_response"
    /\ \E i, j \in 1..Len(result.input.pieces) :
           result.input.pieces[i].kept /\ ~result.input.pieces[j].kept
    /\ result.value # <<>>

\* the store holds a candidate record of the id
KnownCandidate(store, id) ==
    \E i \in 1..Len(store.candidates) : store.candidates[i].candidate_id = id

\* C24: a store_interview_responses call whose candidate id has no candidate
\* record raises an error and leaves the store, its response rows included,
\* as it was.
C24_UnknownCandidateStoresNothing ==
    [][(/\ result'.op = "store_interview_responses"
        /\ ~KnownCandidate(db, result'.candidate_id))
       => /\ result'.raised
          /\ result'.error = VALUE_ERROR
          /\ db'.responses = db.responses
          /\ db' = db]_vars

\* responses were offered for the id of a deleted candidate while another
\* candidate holds its record
C24_Witness ==
    /\ result.op = "store_interview_responses"
    /\ result.raised /\ result.error = VALUE_ERROR
    /\ ~KnownCandidate(db, result.candidate_id)
    /\ db.candidates # <<>>
    /\ db.issued = MaxRecords

\* the fields of a candidate row that identify the person
PersonalFields == {"name", "email", "phone"}

\* the placeholders of Candidate.anonymize for the row of primary key pk
Placeholder(field, pk) ==
    CASE field = "name" -> <<"Anonymized User ", ToString(pk)>>
      [] field = "email" -> <<"anonymized", ToString(pk), "@example.com">>
      [] field = "phone" -> <<"0", "0", "0", "0", "0", "0", "0", "0", "0", "0">>

\* C25: a committed anonymize_expired_data leaves the store as a second
\* run in a row leaves it; each record past its retention deadline has
\* name, email and phone replaced by the placeholders of its primary key
\* and every other field unchanged, each other record is unchanged, and so
\* are the response rows.
C25_AnonymizeExpiredOnce ==
    [][(result'.op = "anonymize_expired_data" /\ ~result'.raised)
       => /\ anonymize_expired_data(db', TRUE).db = db'
          /\ Len(db'.candidates) = Len(db.candidates)
          /\ db'.responses = db.responses
          /\ \A i \in 1..Len(db.candidates) :
                 IF db.candidates[i].expired
                 THEN \A field \in DOMAIN db.candidates[i] :
                          db'.candidates[i][field]
                              = IF field \in PersonalFields
                                THEN Placeholder(field, db.candidates[i].id)
                                ELSE db.candidates[i][field]
                 ELSE db'.candidates[i] = db.candidates[i]]_vars

\* one record was anonymized and another, not past its deadline, kept its
\* name
C25_Witness ==
    /\ result.op = "anonymize_expired_data"
    /\ ~result.raised
    /\ result.value = 1
    /\ Len(db.candidates) = 2
    /\ db.candidates[1].name = Placeholder("name", db.candidates[1].id)
    /\ db.candidates[2].name \in {data.name : data \in CandidateData}

\* C26: a committed delete_candidate_data for a known id returns True and
\* removes the candidate's record and every response row of it, leaving
\* every other candidate record and response row as it was; for an unknown
\* id it returns False and changes nothing.
C26_DeleteRemovesOneCandidate ==
    [][(result'.op = "delete_candidate_data" /\ ~result'.raised)
       => IF KnownCandidate(db, result'.candidate_id)
          THEN /\ result'.value = TRUE
               /\ ~KnownCandidate(db', result'.candidate_id)
               /\ \E gone \in Range(db.candidates) :
                      /\ gone.candidate_id = result'.candidate_id
                      /\ Range(db'.candidates) = Range(db.candidates) \ {gone}
                      /\ Len(db'.candidates) = Len(db.candidates) - 1
                      /\ Range(db'.responses)
                             = {row \in Range(db.responses) : row.candidate_id # gone.id}
                      /\ Len(db'.responses)
                             = Cardinality({i \in 1..Len(db.responses) :
                                               db.responses[i].candidate_id # gone.id})
          ELSE /\ result'.value = FALSE
               /\ db' = db]_vars

\* a candidate was deleted while another candidate and its response row
\* stay
C26_Witness ==
    /\ result.op = "delete_candidate_data"
    /\ ~result.raised
    /\ result.value = TRUE
    /\ ~KnownCandidate(db, result.candidate_id)
    /\ db.issued = MaxRecords
    /\ Len(db.candidates) = 1
    /\ Len(db.responses) = 1

\* the step taken is the turn in which the consent gate read its input so
GateReads(reading) == IsTurn /\ gate' = Append(gate, reading)

\* C27: the turn in which the gate reads an affirmed phrase sets
\* consent_given and returns the consent-given message, the turn in which
\* it reads a declined phrase leaves consent_given False and returns the
\* consent-declined message; either turn closes the gate and leaves
\* current_step at name, and the turn after it on an input that is neither
\* blank nor the exit command stores that input as the name field.
C27_ConsentAnswerThenName ==
    [][/\ GateReads("affirmed")
          => consent_given' /\ result'.value = CONSENT_GIVEN
       /\ GateReads("declined")
          => ~consent_given' /\ result'.value = CONSENT_DECLINED
       /\ (GateReads("affirmed") \/ GateReads("declined"))
          => /\ ~ConsentGateOpen(Self)'
             /\ state'.current_step = "name"
       /\ (/\ IsTurn
           /\ result.op = "process_user_input"
           /\ result.value \in {CONSENT_GIVEN, CONSENT_DECLINED}
           /\ ~result'.exit
           /\ result'.value # NO_INPUT_MESSAGE)
          => /\ "name" \in DOMAIN state'.candidate_info
             /\ "name" \notin DOMAIN state.candidate_info]_vars

\* C28: the turn on which current_step becomes complete, the store not
\* failing, returns the end-of-interview data notice whatever the generation
\* service does when consent_given is True, and otherwise the generated
\* conclusion, or the conclusion template when the generation gives nothing.
C28_ConclusionByConsent ==
    [][(/\ IsTurn
        /\ state.current_step = "technical_questions"
        /\ state'.current_step = "complete"
        /\ ~StoreCallFails)
       => result'.value = IF consent_given' THEN END_OF_INTERVIEW_DATA_NOTICE
                          ELSE IF llm_up THEN generate_response(TRUE, "conclusion")
                          ELSE CONCLUSION_MESSAGE]_vars

\* C31: questions_asked_for_current_tech is always one of 0, 1, 2, 3, and
\* every step that changes current_tech leaves it at 0.
C31_CounterZeroToThree ==
    [][/\ state'.questions_asked_for_current_tech \in 0..QuestionsPerTech
       /\ state'.current_tech # state.current_tech
          => state'.questions_asked_for_current_tech = 0]_vars

\* the third answer on the first technology has moved the session to the
\* second, with the counter back at 0
C31_Witness ==
    /\ Len(state.tech_stack) = 2
    /\ state.current_tech = state.tech_stack[2]
    /\ state.tech_stack[1] # state.tech_stack[2]
    /\ Len(get_asked_questions(state, state.tech_stack[1])) = QuestionsPerTech
    /\ state.questions_asked_for_current_tech = 0

\* C32: candidate_id is None unless consent_given is True and current_step
\* is technical_questions or complete, and a step gives it a value only in
\* the turn that moves current_step from tech_stack to technical_questions.
C32_RecordIdOnlyInTechnicalPhase ==
    [][/\ Truthy(candidate_id')
          => /\ consent_given'
             /\ state'.current_step \in {"technical_questions", "complete"}
       /\ (Truthy(candidate_id') /\ candidate_id' # candidate_id)
          => /\ IsTurn
             /\ state.current_step = "tech_stack"
             /\ state'.current_step = "technical_questions"]_vars

\* a consenting session holds the id of its record and has completed
C32_Witness ==
    /\ Truthy(candidate_id)
    /\ consent_given
    /\ state.current_step = "complete"
    /\ KnownCandidate(db, candidate_id)

\* a tech stack answer naming five technologies
IN_TECH_FIVE == <<"a", ",", "B", ",", " ", "c", ",", "d", ",", "e">>

\* C33: whenever current_step is technical_questions or complete,
\* tech_stack holds 1 to 4 technologies and current_tech is one of them;
\* whenever current_step is an information field current_tech is None; and
\* a tech stack answer naming five technologies enters the technical phase
\* with the first four of them, the first being current.
C33_TechStackAndCurrentTech ==
    /\ state.current_step \in {"technical_questions", "complete"}
          => /\ Len(state.tech_stack) \in 1..MaxTechs
             /\ state.current_tech \in Range(state.tech_stack)
    /\ state.current_step \in InfoSteps => state.current_tech = None
    /\ (state.current_step = "tech_stack" /\ ~ConsentGateOpen(Self))
          => \A env \in Envs(IN_TECH_FIVE) :
             \A s \in {process_user_input(Self, IN_TECH_FIVE, env).c.state} :
                 /\ s.current_step = "technical_questions"
                 /\ s.tech_stack = << <<"a">>, <<"b">>, <<"c">>, <<"d">> >>
                 /\ s.current_tech = <<"a">>

\* the session is on the second of its two technologies
C33_Witness ==
    /\ state.current_step = "technical_questions"
    /\ Len(state.tech_stack) = 2
    /\ state.current_tech = state.tech_stack[2]
    /\ state.current_tech # state.tech_stack[1]
    /\ state.questions_asked_for_current_tech > 0

\* the information fields that come before step in the fixed order
FieldsBefore(step) == {StepOrder[i] : i \in 1..(StepRank(step) - 1)} \cap InfoSteps

\* C38: the keys of candidate_info are exactly the information fields that
\* come before current_step; a stored email and a stored phone pass their
\* validation; and the record a session holds was created from all seven
\* fields of its candidate_info.
C38_FieldsBeforeCurrentStep ==
    /\ DOMAIN state.candidate_info = FieldsBefore(state.current_step)
    /\ "email" \in DOMAIN state.candidate_info
          => validate_input("email", state.candidate_info["email"]).valid
    /\ "phone" \in DOMAIN state.candidate_info
          => validate_input("phone", state.candidate_info["phone"]).valid
    /\ Truthy(candidate_id)
          => /\ DOMAIN state.candidate_info = InfoSteps
             /\ \E i \in 1..Len(db.candidates) :
                    /\ db.candidates[i].candidate_id = candidate_id
                    /\ db.candidates[i].name = state.candidate_info["name"]
                    /\ db.candidates[i].email = state.candidate_info["email"]
                    /\ db.candidates[i].phone = state.candidate_info["phone"]
                    /\ db.candidates[i].experience_years = state.candidate_info["experience"]
                    /\ db.candidates[i].desired_position = state.candidate_info["position"]
                    /\ db.candidates[i].location = state.candidate_info["location"]
                    /\ db.candidates[i].tech_stack = state.candidate_info["tech_stack"]

\* a consenting session has entered the technical phase and holds the id
\* of the record made from its seven fields
C38_Witness ==
    /\ Truthy(candidate_id)
    /\ state.current_step = "technical_questions"
    /\ state.candidate_info["email"] = IN_EMAIL
    /\ state.candidate_info["phone"] = IN_PHONE

\* C39: no value of candidate_info and no answer of asked_questions is the
\* exit command after trimming and case-folding, and none is empty or
\* whitespace only.
C39_NoExitOrBlankStored ==
    /\ \A field \in DOMAIN state.candidate_info :
           /\ Lower(Strip(state.candidate_info[field])) # EXIT_COMMAND
           /\ Strip(state.candidate_info[field]) # <<>>
    /\ \A tech \in DOMAIN state.asked_questions :
       \A i \in 1..Len(state.asked_questions[tech]) :
           /\ Lower(Strip(state.asked_questions[tech][i].answer)) # EXIT_COMMAND
           /\ Strip(state.asked_questions[tech][i].answer) # <<>>

\* a blank input was just answered in a session that holds fields and
\* answers
C39_Witness ==
    /\ result.op = "process_user_input"
    /\ result.value = NO_INPUT_MESSAGE
    /\ state.candidate_info # EmptyDict
    /\ state.asked_questions # EmptyDict

\* the technical answers recorded so far
RecordedAnswers ==
    LET techs == DOMAIN state.asked_questions
        RECURSIVE Sum(_)
        Sum(S) == IF S = {} THEN 0
                  ELSE LET t == CHOOSE x \in S : TRUE
                       IN  Len(state.asked_questions[t]) + Sum(S \ {t})
    IN  Sum(techs)

\* C36: in the technical phase fewer than 3 x len(tech_stack) answers are
\* recorded, and with exactly 3 x len(tech_stack) answers recorded
\* current_step is complete, also for a tech_stack that names a technology
\* twice.
C36_TechnicalPhaseEnds ==
    /\ state.current_step = "technical_questions"
          => RecordedAnswers < QuestionsPerTech * Len(state.tech_stack)
    /\ (state.tech_stack # <<>>
        /\ RecordedAnswers = QuestionsPerTech * Len(state.tech_stack))
          => state.current_step = "complete"

\* C40: a reset_chat step leaves current_step name, candidate_info,
\* tech_stack, tech_questions and asked_questions empty, current_tech None,
\* the counter 0, interview_complete False, the consent flags False,
\* candidate_id None and the history empty, and can_continue_typing()
\* then returns.
C40_ResetGivesFreshSession ==
    [][result'.op = "reset_chat"
       => /\ state'.current_step = "name"
          /\ state'.candidate_info = EmptyDict
          /\ state'.tech_stack = <<>>
          /\ state'.tech_questions = EmptyDict
          /\ state'.asked_questions = EmptyDict
          /\ state'.current_tech = None
          /\ state'.questions_asked_for_current_tech = 0
          /\ ~state'.interview_complete
          /\ ~consent_requested' /\ ~consent_given'
          /\ candidate_id' = None
          /\ history' = <<>>
          /\ ~can_continue_typing(Self').raised]_vars

\* the rows of the responses table written for the candidate row pk about
\* technology tech
RowsAbout(store, pk, tech) ==
    SelectSeq(store.responses,
              LAMBDA row : row.candidate_id = pk /\ row.technology = tech)

\* C37: the responses table is written only in the turn that completes a
\* session holding the id of a record created earlier in it, and the rows
\* written are, for every technology of tech_stack, exactly its 3 recorded
\* question/answer pairs in order, under the primary key of that record;
\* a call of the store made with such an id never fails for an unknown id.
C37_StoreAfterCreateWithAllPairs ==
    [][/\ db'.responses # db.responses
          => /\ Truthy(candidate_id)
             /\ \E i \in 1..Len(db.candidates) :
                    /\ db.candidates[i].candidate_id = candidate_id
                    /\ Len(db'.responses)
                           = Len(db.responses) + QuestionsPerTech * Len(state'.tech_stack)
                    /\ \A k \in 1..Len(state'.tech_stack) :
                       \E rows \in {RowsAbout(db', db.candidates[i].id, state'.tech_stack[k])} :
                           /\ Len(rows) = QuestionsPerTech
                           /\ \A n \in 1..Len(rows) :
                                  /\ rows[n].question
                                         = state'.asked_questions[state'.tech_stack[k]][n].question
                                  /\ rows[n].answer
                                         = state'.asked_questions[state'.tech_stack[k]][n].answer
       /\ IsTurn => result'.error # VALUE_ERROR]_vars

\* a consenting session on two technologies has completed and its six
\* pairs are in the responses table
C37_Witness ==
    /\ state.current_step = "complete"
    /\ Truthy(candidate_id)
    /\ Len(state.tech_stack) = 2
    /\ Len(db.responses) = QuestionsPerTech * Len(state.tech_stack)

----------------------------------------------------------------------------
(* C34                                                                     *)

\* the prompts the controller hands to generate_response
PhrasingPrompts ==
    {"info_gathering", "tech_transition", "tech_transition_next",
     "next_tech_question", "conclusion", "validation_error"}

\* a text holding nothing a generation call returned
FixedText(text) == text # <<>> /\ \A i \in 1..Len(text) : text[i] # "<LLM>"

\* the text one generation call returned, as it came
OneCallText(text) == \E prompt \in PhrasingPrompts : text = <<"<LLM>", prompt>>

\* the composition with the call answering (up) and failing (down)
SameButText(up, down) ==
    /\ down.c = up.c
    /\ down.raised = up.raised
    /\ down.error = up.error
    /\ ~up.raised => /\ FixedText(down.value)
                     /\ OneCallText(up.value) \/ up.value = down.value

\* the message composed after controller c stored user_input, the phrasing
\* call answering or failing
ComposedAlike(c, user_input, env) ==
    SameButText(_get_next_response(c, user_input, [env EXCEPT !.llm = TRUE]),
                _get_next_response(c, user_input, [env EXCEPT !.llm = FALSE]))

\* the turn from what _store_user_response left
ComposedAfter(stored, user_input, env) ==
    stored.raised \/ ComposedAlike(stored.c, user_input, env)

----------------------------------------------------------------------------
(* Two controllers built by ChatbotController() with the default db_path:  *)
(* each owns its components and flags, both DatabaseManagers open the same *)
(* database.  The controller variables hold the first one, result.peer the *)
(* second; result.alone and result.peer_alone are the same two controllers *)
(* given the same inputs each over a database of its own.                  *)

\* a controller that shares with the other one all that __init__ builds
SeenSharingState(c, other) == [c EXCEPT !.db = other.db, !.state = other.state]

\* controller c after a call on the other one: its own state manager and
\* flags, and the database the other one wrote to
SeenBy(c, other) == [c EXCEPT !.db = other.db]

\* the inputs offered to controller c, its technologies distinct so that its
\* interview ends
OfferedTo(c) ==
    ExitInputs \cup BlankInputs
    \cup (IF ConsentGateOpen(c) THEN GateInputs
          ELSE IF c.state.current_step = "tech_stack" THEN {IN_TECH_TWO}
          ELSE StepInputs(c.state.current_step))

\* what the collaborators may do during a turn of controller c: generation
\* answers every call alike, the store commits or fails
EnvsOf(c, user_input) ==
    [ llm   : {llm_up},
      texts : {[i \in 1..MaxTechs |-> TEXT_TWO], [i \in 1..MaxTechs |-> TEXT_FOUR]},
      ack   : {1},
      db    : IF /\ ~IsExit(user_input) /\ ~IsBlank(user_input) /\ ~ConsentGateOpen(c)
                 /\ c.consent_given
                 /\ c.state.current_step \in {"tech_stack", "technical_questions"}
              THEN BOOLEAN ELSE {TRUE} ]

\* both sessions as main starts them: constructed, then get_initial_prompt
TwoSessionsInit ==
    /\ Holds(get_initial_prompt(NewController(EmptyStore)).c)
    /\ result = [ op         |-> "__init__",
                  peer       |-> Self,
                  alone      |-> Self,
                  peer_alone |-> Self ]
    /\ llm_up \in BOOLEAN
    /\ gate = <<>>

\* process_user_input on the first controller
OwnTurn ==
    \E user_input \in OfferedTo(Self) : \E env \in EnvsOf(Self, user_input) :
       \E r \in {process_user_input(Self, user_input, env)} :
           /\ Becomes(r.c)
           /\ result' = [ op         |-> "own",
                          peer       |-> SeenBy(result.peer, r.c),
                          alone      |-> process_user_input(result.alone, user_input, env).c,
                          peer_alone |-> result.peer_alone ]
           /\ UNCHANGED <<llm_up, gate>>

\* process_user_input on the second controller
PeerTurn ==
    \E user_input \in OfferedTo(result.peer) :
       \E env \in EnvsOf(result.peer, user_input) :
       \E r \in {process_user_input(result.peer, user_input, env)} :
           /\ Becomes(SeenBy(Self, r.c))
           /\ result' = [ op         |-> "peer",
                          peer       |-> r.c,
                          alone      |-> result.alone,
                          peer_alone |-> process_user_input(result.peer_alone,
                                                            user_input, env).c ]
           /\ UNCHANGED <<llm_up, gate>>

TwoSessionsNext ==
    \/ OwnTurn
    \/ PeerTurn

TwoSessions == TwoSessionsInit /\ [][TwoSessionsNext]_vars

----------------------------------------------------------------------------
(* C35                                                                     *)

\* the interview state and the consent state of controller c are those of
\* controller a, and c holds a record id exactly if a does
SameSession(c, a) ==
    /\ c.state = a.state
    /\ c.consent_requested = a.consent_requested
    /\ c.consent_given = a.consent_given
    /\ c.gdpr_intro_shown = a.gdpr_intro_shown
    /\ c.history = a.history
    /\ Truthy(c.candidate_id) = Truthy(a.candidate_id)

\* C35: after every interleaving of process_user_input calls on two
\* controllers over the same database, the interview state, the consent
\* flags and the conversation history of each controller are those it has
\* when its own inputs are processed alone over a database of its own.
C35_SessionsIndependent ==
    /\ SameSession(Self, result.alone)
    /\ SameSession(result.peer, result.peer_alone)

\* the first session declined and is in its technical phase while the
\* second consented, finished and wrote its record and answers to the
\* database they share
C35_Witness ==
    /\ state.current_step = "technical_questions"
    /\ ~consent_given
    /\ result.peer.consent_given
    /\ result.peer.state.current_step = "complete"
    /\ Len(db.candidates) = 1
    /\ db.responses # <<>>

====
